---- MODULE Spec2Model ----
(***************************************************************************)
(* A model of the statement analyser of src/src/App.tsx: the component     *)
(* state (stats, error), the FileReader callback of handleFileUpload and   *)
(* the pure function computeStats.                                         *)
(*                                                                         *)
(* JavaScript values are modelled as follows.                              *)
(*  - A number is an extended rational [n, d]: n/d in lowest terms with    *)
(*    d > 0, and NaN = 0/0, Infinity = 1/0, -Infinity = -1/0.  Arithmetic  *)
(*    is exact (the code's IEEE doubles round; the inputs used here are    *)
(*    integers, for which sums and differences are exact in both).         *)
(*  - A string is a sequence of one-character strings.                     *)
(*  - A cell of a sheet row is undefined (the column is absent), a string  *)
(*    or a number.                                                         *)
(***************************************************************************)
EXTENDS Integers, Sequences, FiniteSets, TLC

VARIABLES
    stats,           \* useState<Stats | null>: the published statistics
    error,           \* useState<string>: the published error text
    reads,           \* the FileReader reads in flight, one workbook each
    trades,          \* the trade rows last handed to computeStats
    initialBalance,  \* the initial balance last handed to computeStats
    loaded,          \* the workbook of the read that completed last
    computed,        \* what computeStats last returned
    percentMaps,     \* dailyPercentMap and monthlyPercentMap of the last setStats
    statsFile,       \* the workbook whose processing called setStats last
    selected         \* the files chosen so far, in the order they were chosen

vars == <<stats, error, reads, loaded, trades, initialBalance, computed,
          percentMaps, statsFile, selected>>

Null == [null |-> TRUE]

\* ------------------------------------------------------------------------
\* Bounds of the model

\* the longest list of trade rows handed to computeStats
MaxTrades == 3
\* the longest list of account-activity rows in a workbook
MaxActivity == 3
\* the largest number of file reads in flight at once
MaxReads == 2
\* the largest number of files chosen in one run
MaxSelected == 3

\* ------------------------------------------------------------------------
\* JavaScript numbers

Abs(i) == IF i < 0 THEN -i ELSE i

Sign(i) == IF i < 0 THEN -1 ELSE IF i > 0 THEN 1 ELSE 0

RECURSIVE GCD(_, _)
GCD(a, b) == IF b = 0 THEN a ELSE GCD(b, a % b)

Norm(n, d) ==
    IF d = 0 THEN [n |-> Sign(n), d |-> 0]
    ELSE LET g == GCD(Abs(n), Abs(d))
             s == IF d < 0 THEN -1 ELSE 1
         IN  [n |-> (s * n) \div g, d |-> (s * d) \div g]

Num(i) == [n |-> i, d |-> 1]

NaN == [n |-> 0, d |-> 0]

Infinity == [n |-> 1, d |-> 0]

NegInfinity == [n |-> -1, d |-> 0]

Zero == Num(0)

isNaN(a) == a = NaN

IsFinite(a) == a.d # 0

Add(a, b) ==
    IF a.d = 0 /\ b.d = 0
    THEN (IF a.n = b.n THEN a ELSE NaN)
    ELSE Norm(a.n * b.d + b.n * a.d, a.d * b.d)

Neg(a) == [n |-> -a.n, d |-> a.d]

Sub(a, b) == Add(a, Neg(b))

Mul(a, b) == Norm(a.n * b.n, a.d * b.d)

Div(a, b) == Mul(a, Norm(b.d, b.n))

\* a < b; false when either side is NaN
Lt(a, b) ==
    IF isNaN(a) \/ isNaN(b) THEN FALSE
    ELSE IF a.d = 0 /\ b.d = 0 THEN a.n < b.n
    ELSE a.n * b.d < b.n * a.d

Gt(a, b) == Lt(b, a)

\* Math.sqrt, kept symbolic: the square root of x is the record naming x
\* (the square root is injective on the non-negative numbers it is given).
Sqrt(x) == [sqrtOf |-> x]

\* ------------------------------------------------------------------------
\* JavaScript strings

Digits == <<"0", "1", "2", "3", "4", "5", "6", "7", "8", "9">>

IsDigit(c) == \E i \in 1..10 : Digits[i] = c

DigitVal(c) == (CHOOSE i \in 1..10 : Digits[i] = c) - 1

\* the collation the model gives the characters it uses: punctuation, then
\* digits, then letters
Alphabet ==
    <<" ", "-", "/", ":", "0", "1", "2", "3", "4", "5", "6", "7", "8", "9",
      "a", "d", "e", "f", "i", "n", "u", "x">>

CharRank(c) == CHOOSE i \in 1..Len(Alphabet) : Alphabet[i] = c

\* String.prototype.split with a one-character separator
RECURSIVE Split(_, _)
Split(s, sep) ==
    IF \A i \in 1..Len(s) : s[i] # sep THEN <<s>>
    ELSE LET i == CHOOSE k \in 1..Len(s) :
                      s[k] = sep /\ \A j \in 1..(k - 1) : s[j] # sep
         IN  <<SubSeq(s, 1, i - 1)>> \o Split(SubSeq(s, i + 1, Len(s)), sep)

\* String.prototype.slice(0, k)
SliceTo(s, k) == SubSeq(s, 1, IF Len(s) < k THEN Len(s) ELSE k)

\* String.prototype.trim (the only white space of the model is the blank)
RECURSIVE Trim(_)
Trim(s) ==
    IF s = <<>> THEN s
    ELSE IF Head(s) = " " THEN Trim(Tail(s))
    ELSE IF s[Len(s)] = " " THEN Trim(SubSeq(s, 1, Len(s) - 1))
    ELSE s

\* the value of a run of decimal digits
RECURSIVE DigitsValue(_)
DigitsValue(s) ==
    IF s = <<>> THEN 0
    ELSE 10 * DigitsValue(SubSeq(s, 1, Len(s) - 1)) + DigitVal(s[Len(s)])

AllDigits(s) == s # <<>> /\ \A i \in 1..Len(s) : IsDigit(s[i])

\* a.localeCompare(b) < 0
RECURSIVE LocaleLess(_, _)
LocaleLess(a, b) ==
    IF b = <<>> THEN FALSE
    ELSE IF a = <<>> THEN TRUE
    ELSE IF Head(a) # Head(b) THEN CharRank(Head(a)) < CharRank(Head(b))
    ELSE LocaleLess(Tail(a), Tail(b))

\* the characters of the model in the order of their UTF-16 code units
CodeUnits ==
    <<" ", "-", "/", "0", "1", "2", "3", "4", "5", "6", "7", "8", "9", ":",
      "a", "d", "e", "f", "i", "n", "u", "x">>

CodeUnit(c) == CHOOSE i \in 1..Len(CodeUnits) : CodeUnits[i] = c

\* a < b as the default comparison of Array.prototype.sort orders strings
RECURSIVE CodeUnitLess(_, _)
CodeUnitLess(a, b) ==
    IF b = <<>> THEN FALSE
    ELSE IF a = <<>> THEN TRUE
    ELSE IF Head(a) # Head(b) THEN CodeUnit(Head(a)) < CodeUnit(Head(b))
    ELSE CodeUnitLess(Tail(a), Tail(b))

\* what `${x}` gives for an array element that may be absent
UndefinedText == <<"u", "n", "d", "e", "f", "i", "n", "e", "d">>

Part(parts, i) == IF i <= Len(parts) THEN parts[i] ELSE UndefinedText

\* ------------------------------------------------------------------------
\* Cells of a sheet row

Undefined == [t |-> "undefined", s |-> <<>>, v |-> NaN]

Str(s) == [t |-> "string", s |-> s, v |-> NaN]

NumCell(i) == [t |-> "number", s |-> <<>>, v |-> Num(i)]

\* Number(string): white space trimmed, the empty string is 0, an optionally
\* signed run of digits is its value, anything else is NaN
StringToNumber(s) ==
    LET t == Trim(s)
    IN  IF t = <<>> THEN Zero
        ELSE IF AllDigits(t) THEN Num(DigitsValue(t))
        ELSE IF Head(t) = "-" /\ AllDigits(Tail(t)) THEN Num(-DigitsValue(Tail(t)))
        ELSE NaN

\* Number(cell)
Number(c) ==
    IF c.t = "number" THEN c.v
    ELSE IF c.t = "string" THEN StringToNumber(c.s)
    ELSE NaN

\* the truthiness of a cell
Truthy(c) ==
    IF c.t = "number" THEN ~isNaN(c.v) /\ c.v # Zero
    ELSE IF c.t = "string" THEN c.s # <<>>
    ELSE FALSE

\* the truthiness of a number
TruthyNum(a) == ~isNaN(a) /\ a # Zero

\* ------------------------------------------------------------------------
\* Dates

\* formatDate: dd/mm/yyyy, with or without a time, to yyyy-mm-dd; any other
\* text is returned as it is
formatDate(rawDate) ==
    LET parts == Split(rawDate, " ")
        dateParts == Split(parts[1], "/")
    IN  IF Len(dateParts) = 3
        THEN dateParts[3] \o <<"-">> \o dateParts[2] \o <<"-">> \o dateParts[1]
        ELSE rawDate

\* the text parseDate hands to new Date
parseDateText(rawDate) ==
    LET parts == Split(rawDate, " ")
        dateParts == Split(parts[1], "/")
        timePart == IF Len(parts) >= 2 /\ parts[2] # <<>>
                    THEN parts[2]
                    ELSE <<"0", "0", ":", "0", "0", ":", "0", "0">>
    IN  Part(dateParts, 3) \o <<"-">> \o Part(dateParts, 2) \o <<"-">>
            \o Part(dateParts, 1) \o <<" ">> \o timePart

TwoDigits(s, i) == IsDigit(s[i]) /\ IsDigit(s[i + 1])

\* s is yyyy-mm-dd with a month of 1..12 and a day of 1..31
IsIsoDate(s) ==
    /\ Len(s) = 10
    /\ AllDigits(SubSeq(s, 1, 4)) /\ s[5] = "-"
    /\ TwoDigits(s, 6) /\ s[8] = "-" /\ TwoDigits(s, 9)
    /\ DigitsValue(SubSeq(s, 6, 7)) \in 1..12
    /\ DigitsValue(SubSeq(s, 9, 10)) \in 1..31

\* s is hh:mm:ss
IsClock(s) ==
    /\ Len(s) = 8
    /\ TwoDigits(s, 1) /\ s[3] = ":" /\ TwoDigits(s, 4) /\ s[6] = ":"
    /\ TwoDigits(s, 7)
    /\ DigitsValue(SubSeq(s, 1, 2)) \in 0..23
    /\ DigitsValue(SubSeq(s, 4, 5)) \in 0..59
    /\ DigitsValue(SubSeq(s, 7, 8)) \in 0..59

\* the day number of yyyy-mm-dd, counted from the year 2000 in months of 31
\* days: it orders dates as the calendar does
DayNumber(s) ==
    ((DigitsValue(SubSeq(s, 1, 4)) - 2000) * 12
        + (DigitsValue(SubSeq(s, 6, 7)) - 1)) * 31
        + (DigitsValue(SubSeq(s, 9, 10)) - 1)

SecondOfDay(s) ==
    DigitsValue(SubSeq(s, 1, 2)) * 3600 + DigitsValue(SubSeq(s, 4, 5)) * 60
        + DigitsValue(SubSeq(s, 7, 8))

\* new Date(s).getTime(), in seconds on the scale of DayNumber: the instant of
\* yyyy-mm-dd or of yyyy-mm-dd hh:mm:ss, and NaN (Invalid Date) for any other
\* text
DateGetTime(s) ==
    IF IsIsoDate(s) THEN Num(DayNumber(s) * 86400)
    ELSE IF Len(s) = 19 /\ IsIsoDate(SubSeq(s, 1, 10)) /\ s[11] = " "
            /\ IsClock(SubSeq(s, 12, 19))
    THEN Num(DayNumber(SubSeq(s, 1, 10)) * 86400 + SecondOfDay(SubSeq(s, 12, 19)))
    ELSE NaN

\* parseDate(rawDate).getTime()
parseDate(rawDate) == DateGetTime(parseDateText(rawDate))

\* ------------------------------------------------------------------------
\* Array.prototype.sort with the comparator (a, b) => key(a) - key(b), given
\* the keys of the elements; a NaN difference counts as 0

\* the comparator puts the element of key a strictly before that of key b
KeyLess(a, b) == Lt(Sub(a, b), Zero)

KeyTie(a, b) == ~KeyLess(a, b) /\ ~KeyLess(b, a)

\* the comparator is a consistent comparison function on these keys
Consistent(keys) ==
    \A i, j, k \in 1..Len(keys) :
        KeyTie(keys[i], keys[j]) /\ KeyTie(keys[j], keys[k])
            => KeyTie(keys[i], keys[k])

RECURSIVE InsertAt(_, _, _, _)
\* the order `order` with index x put in: x moves left past every index whose
\* key the comparator puts strictly after its own, from position pos down
InsertAt(order, x, pos, keys) ==
    IF pos > 0 /\ KeyLess(keys[x], keys[order[pos]])
    THEN InsertAt(order, x, pos - 1, keys)
    ELSE SubSeq(order, 1, pos) \o <<x>> \o SubSeq(order, pos + 1, Len(order))

RECURSIVE SortedPrefix(_, _)
\* the indices 1..n in sorted order
SortedPrefix(keys, n) ==
    IF n = 0 THEN <<>>
    ELSE InsertAt(SortedPrefix(keys, n - 1), n, n - 1, keys)

\* the stable order of a consistent comparator (the order an insertion sort
\* leaves): position r holds the index of the element that comes r-th
StableOrder(keys) == SortedPrefix(keys, Len(keys))

AllOrders(n) ==
    {p \in [1..n -> 1..n] : \A i, j \in 1..n : i # j => p[i] # p[j]}

\* the orders sort may leave the elements in: the stable order when the
\* comparator is consistent, an implementation-defined order otherwise
SortOrders(keys) ==
    IF Consistent(keys) THEN {StableOrder(keys)} ELSE AllOrders(Len(keys))

Reorder(seq, order) == [r \in 1..Len(seq) |-> seq[order[r]]]

\* ------------------------------------------------------------------------
\* computeStats

RECURSIVE SumNums(_)
\* reduce((acc, val) => acc + val, 0)
SumNums(s) ==
    IF s = <<>> THEN Zero ELSE Add(SumNums(SubSeq(s, 1, Len(s) - 1)), s[Len(s)])

RECURSIVE MathMax(_)
\* Math.max(...s)
MathMax(s) ==
    IF s = <<>> THEN NegInfinity
    ELSE LET m == MathMax(Tail(s))
         IN  IF isNaN(m) \/ isNaN(Head(s)) THEN NaN
             ELSE IF Gt(Head(s), m) THEN Head(s) ELSE m

RECURSIVE MathMin(_)
\* Math.min(...s)
MathMin(s) ==
    IF s = <<>> THEN Infinity
    ELSE LET m == MathMin(Tail(s))
         IN  IF isNaN(m) \/ isNaN(Head(s)) THEN NaN
             ELSE IF Lt(Head(s), m) THEN Head(s) ELSE m

\* a faulty filter: the empty cell, which Number reads as 0, is kept
IsValidTradeKeepingEmpty(trade) == ~isNaN(Number(trade["Profit(USD)"]))

\* a row the filter keeps
IsValidTrade(trade) ==
    trade["Profit(USD)"] # Str(<<>>) /\ ~isNaN(Number(trade["Profit(USD)"]))

\* a faulty computeStats: the rows are not filtered
validTradesUnfiltered(tradeRows) == tradeRows

validTradesOf(tradeRows) == SelectSeq(tradeRows, IsValidTrade)

profitArrayOf(validTrades) ==
    [i \in 1..Len(validTrades) |-> Number(validTrades[i]["Profit(USD)"])]

IsPositive(p) == Gt(p, Zero)

IsNegative(p) == Lt(p, Zero)

IsZero(p) == p = Zero

\* Number.prototype.toString of an integer
RECURSIVE NatToString(_)
NatToString(i) ==
    IF i < 10 THEN <<Digits[i + 1]>>
    ELSE NatToString(i \div 10) \o <<Digits[(i % 10) + 1]>>

\* cell.toString()
cellToString(c) ==
    IF c.t = "string" THEN c.s
    ELSE IF c.v.n < 0 THEN <<"-">> \o NatToString(-c.v.n)
    ELSE NatToString(c.v.n)

\* a faulty grouping: a Close Date that is not in three parts gives no key
dateStrDroppingIllShaped(trade) ==
    IF Truthy(trade["Close Date"])
    THEN LET parts == Split(cellToString(trade["Close Date"]), " ")
             dateParts == Split(parts[1], "/")
         IN  IF Len(dateParts) = 3
             THEN dateParts[3] \o <<"-">> \o dateParts[2] \o <<"-">> \o dateParts[1]
             ELSE <<>>
    ELSE <<>>

\* the key a trade is grouped under: '' when it is grouped under none
dateStrOf(trade) ==
    IF Truthy(trade["Close Date"])
    THEN LET parts == Split(cellToString(trade["Close Date"]), " ")
             dateParts == Split(parts[1], "/")
         IN  IF Len(dateParts) = 3
             THEN dateParts[3] \o <<"-">> \o dateParts[2] \o <<"-">> \o dateParts[1]
             ELSE parts[1]
    ELSE <<>>

\* An object used as a map is a sequence of [key, value] in the order the
\* keys were first set (the keys of the model are no array indices).
MapHas(m, k) == \E i \in 1..Len(m) : m[i].key = k

\* (m[k] || 0)
MapGetOrZero(m, k) ==
    IF MapHas(m, k)
    THEN LET v == m[CHOOSE i \in 1..Len(m) : m[i].key = k].value
         IN  IF TruthyNum(v) THEN v ELSE Zero
    ELSE Zero

MapSet(m, k, v) ==
    IF MapHas(m, k)
    THEN [i \in 1..Len(m) |-> IF m[i].key = k THEN [key |-> k, value |-> v] ELSE m[i]]
    ELSE Append(m, [key |-> k, value |-> v])

RECURSIVE dailyProfitMapOf(_)
dailyProfitMapOf(validTrades) ==
    IF validTrades = <<>> THEN <<>>
    ELSE LET n == Len(validTrades)
             m == dailyProfitMapOf(SubSeq(validTrades, 1, n - 1))
             trade == validTrades[n]
             dateStr == dateStrOf(trade)
         IN  IF dateStr # <<>>
             THEN MapSet(m, dateStr,
                         Add(MapGetOrZero(m, dateStr), Number(trade["Profit(USD)"])))
             ELSE m

\* dailyData before the sort and the walk
dailyRowsOf(dailyProfitMap) ==
    [i \in 1..Len(dailyProfitMap) |->
        [date |-> dailyProfitMap[i].key, profit |-> dailyProfitMap[i].value,
         cumulativeProfit |-> Zero, balance |-> Zero, dailyPercentChange |-> Zero]]

\* a faulty computeStats: dailyData is left in the order of the map's keys
dailyOrdersUnsorted(tradeRows) ==
    LET rows == dailyRowsOf(dailyProfitMapOf(validTradesOf(tradeRows)))
    IN  {[i \in 1..Len(rows) |-> i]}

\* the orders dailyData.sort may leave dailyData in
dailySortOrders(tradeRows) ==
    LET rows == dailyRowsOf(dailyProfitMapOf(validTradesOf(tradeRows)))
    IN  SortOrders([i \in 1..Len(rows) |-> DateGetTime(rows[i].date)])

\* profit / previousBalance * 100, whatever previousBalance is
percentOfUnguarded(profit, previousBalance) ==
    Mul(Div(profit, previousBalance), Num(100))

\* profit / previousBalance * 100, and 0 when previousBalance is 0
percentOf(profit, previousBalance) ==
    IF previousBalance # Zero
    THEN Mul(Div(profit, previousBalance), Num(100))
    ELSE Zero

RECURSIVE walkDailyFromPrevious(_, _, _, _)
\* a faulty walk: the balance is built on the previous balance, not on the
\* initial one
walkDailyFromPrevious(items, cumulative, previousBalance, initBalance) ==
    IF items = <<>> THEN <<>>
    ELSE LET item == Head(items)
             cum == Add(cumulative, item.profit)
             bal == Add(previousBalance, cum)
         IN  <<[item EXCEPT !.cumulativeProfit = cum, !.balance = bal,
                            !.dailyPercentChange =
                                percentOf(item.profit, previousBalance)]>>
                 \o walkDailyFromPrevious(Tail(items), cum, bal, initBalance)

RECURSIVE walkDaily(_, _, _, _)
\* dailyData.forEach: the running cumulative profit, balance and percent change
walkDaily(items, cumulative, previousBalance, initBalance) ==
    IF items = <<>> THEN <<>>
    ELSE LET item == Head(items)
             cum == Add(cumulative, item.profit)
             bal == Add(initBalance, cum)
         IN  <<[item EXCEPT !.cumulativeProfit = cum, !.balance = bal,
                            !.dailyPercentChange =
                                percentOf(item.profit, previousBalance)]>>
                 \o walkDaily(Tail(items), cum, bal, initBalance)

RECURSIVE monthlyProfitMapOverwriting(_)
\* a faulty grouping: a day's profit replaces the month's profit so far
monthlyProfitMapOverwriting(dailyData) ==
    IF dailyData = <<>> THEN <<>>
    ELSE LET n == Len(dailyData)
             m == monthlyProfitMapOverwriting(SubSeq(dailyData, 1, n - 1))
         IN  MapSet(m, SliceTo(dailyData[n].date, 7), dailyData[n].profit)

RECURSIVE monthlyProfitMapOf(_)
monthlyProfitMapOf(dailyData) ==
    IF dailyData = <<>> THEN <<>>
    ELSE LET n == Len(dailyData)
             m == monthlyProfitMapOf(SubSeq(dailyData, 1, n - 1))
             month == SliceTo(dailyData[n].date, 7)
         IN  MapSet(m, month, Add(MapGetOrZero(m, month), dailyData[n].profit))

\* monthlyDataArray.sort((a, b) => a.month.localeCompare(b.month)): the months
\* are distinct keys, so the order is total
sortMonthly(monthlyDataArray) ==
    LET n == Len(monthlyDataArray)
        Rank(i) == 1 + Cardinality({j \in 1..n :
                        LocaleLess(monthlyDataArray[j].key, monthlyDataArray[i].key)})
    IN  [r \in 1..n |-> monthlyDataArray[CHOOSE i \in 1..n : Rank(i) = r]]

RECURSIVE walkMonthlyOverInitial(_, _, _, _)
\* a walk that takes every percent change over the initial balance
walkMonthlyOverInitial(items, monthlyCumulative, prevMonthlyBalance, initBalance) ==
    IF items = <<>> THEN <<>>
    ELSE LET item == Head(items)
             cum == Add(monthlyCumulative, item.value)
             balance == Add(initBalance, cum)
         IN  <<[month |-> item.key, profit |-> item.value,
                cumulativeProfit |-> cum, balance |-> balance,
                monthlyPercentChange |-> percentOf(item.value, initBalance)]>>
                 \o walkMonthlyOverInitial(Tail(items), cum, balance, initBalance)

RECURSIVE walkMonthlyPerMonth(_, _, _, _)
\* a walk that does not carry the cumulative profit over to the next month
walkMonthlyPerMonth(items, monthlyCumulative, prevMonthlyBalance, initBalance) ==
    IF items = <<>> THEN <<>>
    ELSE LET item == Head(items)
             balance == Add(initBalance, item.value)
         IN  <<[month |-> item.key, profit |-> item.value,
                cumulativeProfit |-> item.value, balance |-> balance,
                monthlyPercentChange |-> percentOf(item.value, prevMonthlyBalance)]>>
                 \o walkMonthlyPerMonth(Tail(items), item.value, balance, initBalance)

RECURSIVE walkMonthly(_, _, _, _)
walkMonthly(items, monthlyCumulative, prevMonthlyBalance, initBalance) ==
    IF items = <<>> THEN <<>>
    ELSE LET item == Head(items)
             cum == Add(monthlyCumulative, item.value)
             balance == Add(initBalance, cum)
         IN  <<[month |-> item.key, profit |-> item.value,
                cumulativeProfit |-> cum, balance |-> balance,
                monthlyPercentChange |-> percentOf(item.value, prevMonthlyBalance)]>>
                 \o walkMonthly(Tail(items), cum, balance, initBalance)

\* the median taken without sorting the profits
medianOfUnsorted(profitArray) ==
    LET n == Len(profitArray)
        mid == n \div 2
    IN  IF n > 0
        THEN (IF n % 2 = 0
              THEN Div(Add(profitArray[mid], profitArray[mid + 1]), Num(2))
              ELSE profitArray[mid + 1])
        ELSE Zero

\* the upper middle profit, for an even count too
medianOfUpperMiddle(profitArray) ==
    LET sortedProfit == Reorder(profitArray, StableOrder(profitArray))
        n == Len(sortedProfit)
    IN  IF n > 0 THEN sortedProfit[(n \div 2) + 1] ELSE Zero

medianOf(profitArray) ==
    LET sortedProfit == Reorder(profitArray, StableOrder(profitArray))
        n == Len(sortedProfit)
        mid == n \div 2
    IN  IF n > 0
        THEN (IF n % 2 = 0
              THEN Div(Add(sortedProfit[mid], sortedProfit[mid + 1]), Num(2))
              ELSE sortedProfit[mid + 1])
        ELSE Zero

varianceOf(profitArray, avgProfit) ==
    IF Len(profitArray) > 0
    THEN Div(SumNums([i \in 1..Len(profitArray) |->
                        Mul(Sub(profitArray[i], avgProfit),
                            Sub(profitArray[i], avgProfit))]),
             Num(Len(profitArray)))
    ELSE Zero

\* the win rate as a fraction of 1
winRateAsFraction(profitableTrades, totalTrades) ==
    IF totalTrades > 0 THEN Div(Num(profitableTrades), Num(totalTrades)) ELSE Zero

\* totalTrades > 0 ? (profitableTrades / totalTrades) * 100 : 0
winRateOf(profitableTrades, totalTrades) ==
    IF totalTrades > 0
    THEN Mul(Div(Num(profitableTrades), Num(totalTrades)), Num(100))
    ELSE Zero

\* the sum of the values of dailyProfitMap over their number, without a guard
averageDailyProfitUnguarded(dailyProfits) ==
    Div(SumNums(dailyProfits), Num(Len(dailyProfits)))

\* the sum of the values of dailyProfitMap over their number, 0 without any
averageDailyProfitOf(dailyProfits) ==
    IF Len(dailyProfits) > 0
    THEN Div(SumNums(dailyProfits), Num(Len(dailyProfits)))
    ELSE Zero

\* computeStats(trades, initialBalance), with dailyData.sort leaving dailyData
\* in the order `order`
computeStats(tradeRows, initBalance, order) ==
    LET validTrades == validTradesOf(tradeRows)
        totalTrades == Len(validTrades)
        profitArray == profitArrayOf(validTrades)
        profitableTrades == Len(SelectSeq(profitArray, IsPositive))
        lossTrades == Len(SelectSeq(profitArray, IsNegative))
        breakEvenTrades == Len(SelectSeq(profitArray, IsZero))
        winRate == winRateOf(profitableTrades, totalTrades)
        totalProfit == SumNums(profitArray)
        avgProfit == IF totalTrades > 0 THEN Div(totalProfit, Num(totalTrades)) ELSE Zero
        dailyProfitMap == dailyProfitMapOf(validTrades)
        dailyProfits == [i \in 1..Len(dailyProfitMap) |-> dailyProfitMap[i].value]
        averageDailyProfit == averageDailyProfitOf(dailyProfits)
        dailyData == walkDaily(Reorder(dailyRowsOf(dailyProfitMap), order),
                               Zero, initBalance, initBalance)
        monthlyData == walkMonthly(sortMonthly(monthlyProfitMapOf(dailyData)),
                                   Zero, initBalance, initBalance)
    IN  [totalTrades |-> totalTrades,
         profitableTrades |-> profitableTrades,
         lossTrades |-> lossTrades,
         breakEvenTrades |-> breakEvenTrades,
         winRate |-> winRate,
         totalProfit |-> totalProfit,
         maxProfit |-> MathMax(profitArray),
         minProfit |-> MathMin(profitArray),
         avgProfit |-> avgProfit,
         medianProfit |-> medianOf(profitArray),
         stdDev |-> Sqrt(varianceOf(profitArray, avgProfit)),
         averageDailyProfit |-> averageDailyProfit,
         projectedAnnualIncome |-> Mul(averageDailyProfit, Num(365)),
         dailyData |-> dailyData,
         monthlyData |-> monthlyData,
         realizedEquityData |-> <<>>]

\* ------------------------------------------------------------------------
\* reader.onload of handleFileUpload

ErrorProcessing == "Error processing file."

ClosedPositionsMissing == "Sheet \"Closed Positions\" not found in the uploaded file."

AccountActivityMissing == "Sheet \"Account Activity\" not found in the uploaded file."

\* rawDate.split throws a TypeError when the Date cell is no string
DateThrows(row) == row["Date"].t # "string"

\* the try block throws: XLSX.read rejects the file, or formatDate (and
\* parseDate, when there is more than one row) is handed a Date that is no
\* string
processingThrows(wb) ==
    \/ ~wb.readable
    \/ /\ wb.hasClosedPositions /\ wb.hasAccountActivity
       /\ \E i \in 1..Len(wb.activityData) : DateThrows(wb.activityData[i])

\* the orders activityData.sort may leave the rows in
activitySortOrders(activityData) ==
    SortOrders([i \in 1..Len(activityData) |-> parseDate(activityData[i]["Date"].s)])

\* sortedActivity[0]?.Balance ? Number(sortedActivity[0].Balance) : 0
initialBalanceOf(sortedActivity) ==
    IF Len(sortedActivity) > 0 /\ Truthy(sortedActivity[1]["Balance"])
    THEN Number(sortedActivity[1]["Balance"])
    ELSE Zero

\* Number(x) || 0
NumberOrZero(c) == IF TruthyNum(Number(c)) THEN Number(c) ELSE Zero

realizedEquityDataOf(sortedActivity) ==
    [i \in 1..Len(sortedActivity) |->
        [date |-> formatDate(sortedActivity[i]["Date"].s),
         realizedEquity |-> NumberOrZero(sortedActivity[i]["Realized Equity"])]]

MapGet(m, k) == m[CHOOSE i \in 1..Len(m) : m[i].key = k].value

RECURSIVE dailyRealizedMapOf(_)
\* date => the realised equity of the last row of that date
dailyRealizedMapOf(realizedEquityData) ==
    IF realizedEquityData = <<>> THEN <<>>
    ELSE LET n == Len(realizedEquityData)
         IN  MapSet(dailyRealizedMapOf(SubSeq(realizedEquityData, 1, n - 1)),
                    realizedEquityData[n].date, realizedEquityData[n].realizedEquity)

\* the orders the sort of the equity dates may leave them in
equityDateSortOrders(dailyRealizedMap) ==
    SortOrders([i \in 1..Len(dailyRealizedMap) |-> DateGetTime(dailyRealizedMap[i].key)])

\* (curr - prev) / prev * 100, and 0 when prev is 0
changeOf(prev, curr) ==
    IF prev # Zero THEN Mul(Div(Sub(curr, prev), prev), Num(100)) ELSE Zero

\* the percent change of each key over the first key
percentMapOverFirst(sortedKeys, realizedMap) ==
    [i \in 1..Len(sortedKeys) |->
        [key |-> sortedKeys[i],
         value |-> IF i = 1 THEN Zero
                   ELSE changeOf(MapGet(realizedMap, sortedKeys[1]),
                                 MapGet(realizedMap, sortedKeys[i]))]]

\* the percent change of each key over the key sorted before it, 0 for the first
percentMapOf(sortedKeys, realizedMap) ==
    [i \in 1..Len(sortedKeys) |->
        [key |-> sortedKeys[i],
         value |-> IF i = 1 THEN Zero
                   ELSE changeOf(MapGet(realizedMap, sortedKeys[i - 1]),
                                 MapGet(realizedMap, sortedKeys[i]))]]

\* a patch that overwrites the percent change of every bucket
patchDailyEveryBucket(dailyData, dailyPercentMap) ==
    [i \in 1..Len(dailyData) |->
        [dailyData[i] EXCEPT
            !.dailyPercentChange = MapGetOrZero(dailyPercentMap, dailyData[i].date)]]

patchDaily(dailyData, dailyPercentMap) ==
    [i \in 1..Len(dailyData) |->
        IF MapHas(dailyPercentMap, dailyData[i].date)
        THEN [dailyData[i] EXCEPT
                 !.dailyPercentChange = MapGet(dailyPercentMap, dailyData[i].date)]
        ELSE dailyData[i]]

RECURSIVE monthlyRealizedMapKeepingFirst(_, _)
\* month => the realised equity of the first of the sorted dates of that month
monthlyRealizedMapKeepingFirst(sortedDates, dailyRealizedMap) ==
    IF sortedDates = <<>> THEN <<>>
    ELSE MapSet(monthlyRealizedMapKeepingFirst(Tail(sortedDates), dailyRealizedMap),
                SliceTo(sortedDates[1], 7), MapGet(dailyRealizedMap, sortedDates[1]))

RECURSIVE monthlyRealizedMapOf(_, _)
\* month => the realised equity of the last of the sorted dates of that month
monthlyRealizedMapOf(sortedDates, dailyRealizedMap) ==
    IF sortedDates = <<>> THEN <<>>
    ELSE LET n == Len(sortedDates)
         IN  MapSet(monthlyRealizedMapOf(SubSeq(sortedDates, 1, n - 1), dailyRealizedMap),
                    SliceTo(sortedDates[n], 7), MapGet(dailyRealizedMap, sortedDates[n]))

\* Object.keys(monthlyRealizedMap).sort(): the keys by their code units
sortedMonthsOf(monthlyRealizedMap) ==
    LET n == Len(monthlyRealizedMap)
        Rank(i) == 1 + Cardinality({j \in 1..n :
                        CodeUnitLess(monthlyRealizedMap[j].key, monthlyRealizedMap[i].key)})
    IN  [r \in 1..n |-> monthlyRealizedMap[CHOOSE i \in 1..n : Rank(i) = r].key]

\* a patch that adds the equity-derived change to the change of the bucket
patchMonthlyAccumulating(monthlyData, monthlyPercentMap) ==
    [i \in 1..Len(monthlyData) |->
        IF MapHas(monthlyPercentMap, monthlyData[i].month)
        THEN [monthlyData[i] EXCEPT
                 !.monthlyPercentChange =
                     Add(monthlyData[i].monthlyPercentChange,
                         MapGet(monthlyPercentMap, monthlyData[i].month))]
        ELSE monthlyData[i]]

\* a patch that keeps only the buckets of the equity months
patchMonthlyDroppingOthers(monthlyData, monthlyPercentMap) ==
    LET Matched(bucket) == MapHas(monthlyPercentMap, bucket.month)
        kept == SelectSeq(monthlyData, Matched)
    IN  [i \in 1..Len(kept) |->
            [kept[i] EXCEPT
                !.monthlyPercentChange = MapGet(monthlyPercentMap, kept[i].month)]]

patchMonthly(monthlyData, monthlyPercentMap) ==
    [i \in 1..Len(monthlyData) |->
        IF MapHas(monthlyPercentMap, monthlyData[i].month)
        THEN [monthlyData[i] EXCEPT
                 !.monthlyPercentChange = MapGet(monthlyPercentMap, monthlyData[i].month)]
        ELSE monthlyData[i]]

\* dailyPercentMap and monthlyPercentMap, with the sort of the equity dates
\* leaving them in the order datesOrder
percentMapsOf(realizedEquityData, datesOrder) ==
    LET dailyRealizedMap == dailyRealizedMapOf(realizedEquityData)
        keys == [i \in 1..Len(dailyRealizedMap) |-> dailyRealizedMap[i].key]
        sortedDates == Reorder(keys, datesOrder)
        monthlyRealizedMap == monthlyRealizedMapOf(sortedDates, dailyRealizedMap)
    IN  [daily |-> percentMapOf(sortedDates, dailyRealizedMap),
         monthly |-> percentMapOf(sortedMonthsOf(monthlyRealizedMap),
                                  monthlyRealizedMap)]

\* the recalculation of the percent changes from the realised equity, with the
\* sort of the equity dates leaving them in the order datesOrder
reconcile(computedStats, datesOrder) ==
    LET maps == percentMapsOf(computedStats.realizedEquityData, datesOrder)
    IN  [computedStats EXCEPT
            !.dailyData = patchDaily(computedStats.dailyData, maps.daily),
            !.monthlyData = patchMonthly(computedStats.monthlyData, maps.monthly)]

\* a handler that ends in setError(message) and clears the stats
failsClearingStats(wb, message) ==
    /\ error' = message
    /\ loaded' = wb
    /\ stats' = Null
    /\ UNCHANGED <<trades, initialBalance, computed, percentMaps, statsFile>>

\* the handler ends in setError(message): stats stay as they are
fails(wb, message) ==
    /\ error' = message
    /\ loaded' = wb
    /\ UNCHANGED <<stats, trades, initialBalance, computed, percentMaps, statsFile>>

\* the handler runs to setStats(computedStats); setError('')
succeeds(wb) ==
    \E activityOrder \in activitySortOrders(wb.activityData),
       dailyOrder \in dailySortOrders(wb.tradesData) :
        LET sortedActivity == Reorder(wb.activityData, activityOrder)
            balance == initialBalanceOf(sortedActivity)
            returned == computeStats(wb.tradesData, balance, dailyOrder)
            computedStats ==
                [returned EXCEPT
                    !.realizedEquityData = realizedEquityDataOf(sortedActivity)]
        IN  \E datesOrder \in equityDateSortOrders(
                                  dailyRealizedMapOf(computedStats.realizedEquityData)) :
                /\ stats' = reconcile(computedStats, datesOrder)
                /\ error' = ""
                /\ loaded' = wb
                /\ trades' = wb.tradesData
                /\ initialBalance' = balance
                /\ computed' = returned
                /\ percentMaps' = percentMapsOf(computedStats.realizedEquityData,
                                                datesOrder)
                /\ statsFile' = wb

\* the read of reads[i] completes and its onload callback runs
onload(i) ==
    /\ i \in 1..Len(reads)
    /\ reads' = SubSeq(reads, 1, i - 1) \o SubSeq(reads, i + 1, Len(reads))
    /\ UNCHANGED selected
    /\ LET wb == reads[i]
       IN  IF processingThrows(wb) THEN fails(wb, ErrorProcessing)
           ELSE IF ~wb.hasClosedPositions THEN fails(wb, ClosedPositionsMissing)
           ELSE IF ~wb.hasAccountActivity THEN fails(wb, AccountActivityMissing)
           ELSE succeeds(wb)

\* handleFileUpload: a file is chosen and its read starts
handleFileUpload(wb) ==
    /\ Len(reads) < MaxReads
    /\ Len(selected) < MaxSelected
    /\ reads' = Append(reads, wb)
    /\ selected' = Append(selected, wb)
    /\ UNCHANGED <<stats, error, loaded, trades, initialBalance, computed,
                   percentMaps, statsFile>>

\* ------------------------------------------------------------------------
\* The inputs of the model

Clock(hh) == <<" ">> \o hh \o <<":", "0", "0", ":", "0", "0">>

Slashed(dd, mm, yyyy) == dd \o <<"/">> \o mm \o <<"/">> \o yyyy

Y2024 == <<"2", "0", "2", "4">>

\* 01/01/2024 10:00:00
Jan1Morning == Slashed(<<"0", "1">>, <<"0", "1">>, Y2024) \o Clock(<<"1", "0">>)

\* 01/01/2024 12:00:00
Jan1Noon == Slashed(<<"0", "1">>, <<"0", "1">>, Y2024) \o Clock(<<"1", "2">>)

\* 02/01/2024 09:00:00
Jan2Morning == Slashed(<<"0", "2">>, <<"0", "1">>, Y2024) \o Clock(<<"0", "9">>)

\* 15/02/2024 09:00:00
Feb15Morning == Slashed(<<"1", "5">>, <<"0", "2">>, Y2024) \o Clock(<<"0", "9">>)

\* a date that is not in the dd/mm/yyyy shape, and that new Date reads
IsoJan5 == <<"2", "0", "2", "4", "-", "0", "1", "-", "0", "5">>

\* a text that is not in the dd/mm/yyyy shape, and that new Date cannot read
NotADate == <<"n", "/", "a">>

TradeRow(profit, closeDate) ==
    ("Profit(USD)" :> profit) @@ ("Close Date" :> closeDate)

\* the trade rows of the model: rows the filter keeps, with well-shaped,
\* empty, absent and ill-shaped close dates, and rows it drops
TradeRows ==
    { TradeRow(NumCell(100), Str(Jan1Morning)),
      TradeRow(NumCell(-50), Str(Jan1Noon)),
      TradeRow(Str(<<"2", "0">>), Str(Jan2Morning)),
      TradeRow(NumCell(0), Str(Feb15Morning)),
      TradeRow(NumCell(100), Undefined),
      TradeRow(NumCell(-50), Str(<<>>)),
      TradeRow(NumCell(20), Str(IsoJan5)),
      TradeRow(NumCell(100), Str(NotADate)),
      TradeRow(Undefined, Str(Jan1Morning)),
      TradeRow(Str(<<>>), Str(Jan2Morning)),
      TradeRow(Str(<<"1", "x">>), Str(Feb15Morning)) }

TradeLists == UNION {[1..n -> TradeRows] : n \in 0..MaxTrades}

\* the initial balances handed to computeStats
Balances == {Zero, Num(1000), NaN}

\* ------------------------------------------------------------------------
\* computeStats on its own: the arguments are drawn at the start, and the one
\* step is the call

InitStats ==
    /\ stats = Null
    /\ error = ""
    /\ reads = <<>>
    /\ trades \in TradeLists
    /\ initialBalance \in Balances
    /\ loaded = Null
    /\ computed = Null
    /\ percentMaps = Null
    /\ statsFile = Null
    /\ selected = <<>>

callComputeStats ==
    /\ computed = Null
    /\ \E order \in dailySortOrders(trades) :
           computed' = computeStats(trades, initialBalance, order)
    /\ UNCHANGED <<stats, error, reads, loaded, trades, initialBalance,
                   percentMaps, statsFile, selected>>

NextStats == callComputeStats

SpecStats == InitStats /\ [][NextStats]_vars

\* ------------------------------------------------------------------------
\* computeStats on lists of rows that differ in their order: the rows are
\* valid trades of one day, of a day of another month, with an unreadable
\* Close Date and without one

PermutedRows ==
    { TradeRow(NumCell(100), Str(Jan1Morning)),
      TradeRow(NumCell(-50), Str(Jan1Noon)),
      TradeRow(Str(<<"2", "0">>), Str(Feb15Morning)),
      TradeRow(NumCell(100), Str(NotADate)),
      TradeRow(NumCell(-50), Str(<<>>)) }

PermutedLists == UNION {[1..n -> PermutedRows] : n \in 0..MaxTrades}

InitPermuted ==
    /\ stats = Null
    /\ error = ""
    /\ reads = <<>>
    /\ trades \in PermutedLists
    /\ initialBalance \in Balances
    /\ loaded = Null
    /\ computed = Null
    /\ percentMaps = Null
    /\ statsFile = Null
    /\ selected = <<>>

SpecPermuted == InitPermuted /\ [][NextStats]_vars

\* ------------------------------------------------------------------------
\* The workbooks of the model

ActivityRow(date, balance, realizedEquity) ==
    ("Date" :> date) @@ ("Balance" :> balance) @@ ("Realized Equity" :> realizedEquity)

\* the account-activity rows of the model: two snapshots of one day, later
\* days of the same and of the next month, balances and equities that are
\* zero, empty, absent or no number, and dates that are absent or a number
ActivityRows ==
    { ActivityRow(Str(Jan1Morning), NumCell(1000), NumCell(1000)),
      ActivityRow(Str(Jan1Noon), NumCell(500), NumCell(1100)),
      ActivityRow(Str(Jan2Morning), NumCell(0), NumCell(0)),
      ActivityRow(Str(Jan2Morning), Str(<<>>), Str(<<"2", "0">>)),
      ActivityRow(Str(Feb15Morning), Str(<<"1", "x">>), Str(<<"1", "x">>)),
      ActivityRow(Str(Feb15Morning), NumCell(1000), NumCell(1210)),
      ActivityRow(Str(Jan1Morning), Undefined, Undefined),
      ActivityRow(Undefined, NumCell(1000), NumCell(1000)),
      ActivityRow(NumCell(45000), NumCell(1000), NumCell(1000)) }

ActivityLists == UNION {[1..n -> ActivityRows] : n \in 0..MaxActivity}

\* the trade sheets of the workbooks: none, one trade, the days of January and
\* of February, a trade without a Close Date, an ill-shaped Close Date
UploadTradeLists ==
    { <<>>,
      <<TradeRow(NumCell(100), Str(Jan1Morning))>>,
      <<TradeRow(NumCell(100), Str(Jan1Morning)), TradeRow(NumCell(-50), Str(Jan1Noon)),
        TradeRow(Str(<<"2", "0">>), Str(Jan2Morning))>>,
      <<TradeRow(NumCell(0), Str(Feb15Morning)), TradeRow(Str(<<"2", "0">>), Str(Jan2Morning)),
        TradeRow(NumCell(100), Undefined)>>,
      <<TradeRow(NumCell(20), Str(IsoJan5)), TradeRow(Str(<<>>), Str(Jan2Morning)),
        TradeRow(NumCell(-50), Str(Jan1Noon))>> }

Workbook(readable, hasClosedPositions, hasAccountActivity, tradesData, activityData) ==
    [readable |-> readable, hasClosedPositions |-> hasClosedPositions,
     hasAccountActivity |-> hasAccountActivity,
     tradesData |-> tradesData, activityData |-> activityData]

\* a file XLSX.read rejects, a workbook without either sheet
BrokenWorkbooks ==
    { Workbook(FALSE, FALSE, FALSE, <<>>, <<>>),
      Workbook(TRUE, FALSE, TRUE, <<>>, <<>>),
      Workbook(TRUE, TRUE, FALSE, <<>>, <<>>) }

Workbooks ==
    BrokenWorkbooks \cup
        {Workbook(TRUE, TRUE, TRUE, t, a) : t \in UploadTradeLists, a \in ActivityLists}

\* ------------------------------------------------------------------------
\* One upload on its own: the workbook is drawn at the start, its read is in
\* flight, and the one step is its onload callback

InitUpload ==
    /\ stats = Null
    /\ error = ""
    /\ reads \in {<<wb>> : wb \in Workbooks}
    /\ loaded = Null
    /\ trades = <<>>
    /\ initialBalance = Zero
    /\ computed = Null
    /\ percentMaps = Null
    /\ statsFile = Null
    /\ selected = reads

NextUpload == \E i \in 1..Len(reads) : onload(i)

SpecUpload == InitUpload /\ [][NextUpload]_vars

\* ------------------------------------------------------------------------
\* The component: files are chosen one after the other, and the reads in
\* flight complete in any order

\* the files a user chooses from
Files ==
    BrokenWorkbooks \cup
        { Workbook(TRUE, TRUE, TRUE, <<>>, <<>>),
          Workbook(TRUE, TRUE, TRUE,
                   <<TradeRow(NumCell(100), Str(Jan1Morning))>>,
                   <<ActivityRow(Str(Jan1Morning), NumCell(1000), NumCell(1000))>>),
          Workbook(TRUE, TRUE, TRUE,
                   <<TradeRow(NumCell(-50), Str(Jan1Noon)),
                     TradeRow(Str(<<"2", "0">>), Str(Jan2Morning))>>,
                   <<ActivityRow(Str(Jan2Morning), NumCell(0), NumCell(0)),
                     ActivityRow(Str(Jan1Noon), NumCell(500), NumCell(1100))>>),
          Workbook(TRUE, TRUE, TRUE,
                   <<TradeRow(NumCell(100), Str(Jan1Morning))>>,
                   <<ActivityRow(Undefined, NumCell(1000), NumCell(1000))>>) }

Init ==
    /\ stats = Null
    /\ error = ""
    /\ reads = <<>>
    /\ loaded = Null
    /\ trades = <<>>
    /\ initialBalance = Zero
    /\ computed = Null
    /\ percentMaps = Null
    /\ statsFile = Null
    /\ selected = <<>>

Next ==
    \/ \E wb \in Files : handleFileUpload(wb)
    \/ \E i \in 1..Len(reads) : onload(i)

Spec == Init /\ [][Next]_vars

\* ------------------------------------------------------------------------
\* The vocabulary of the properties

\* s is a decimal numeral: digits, with or without a leading minus
IsNumeral(s) ==
    /\ s # <<>>
    /\ \A i \in 1..Len(s) : IsDigit(s[i]) \/ (i = 1 /\ s[i] = "-")
    /\ \E i \in 1..Len(s) : IsDigit(s[i])

\* the profit field is present and numeric
PresentAndNumeric(c) ==
    \/ c.t = "number" /\ IsFinite(c.v)
    \/ c.t = "string" /\ IsNumeral(c.s)

RECURSIVE NumeralValue(_, _)
\* the value of the digits of s after those of value acc
NumeralValue(s, acc) ==
    IF s = <<>> THEN acc ELSE NumeralValue(Tail(s), 10 * acc + DigitVal(Head(s)))

\* the profit a present and numeric field states
ProfitValue(c) ==
    IF c.t = "number" THEN c.v
    ELSE IF Head(c.s) = "-" THEN Num(-NumeralValue(Tail(c.s), 0))
    ELSE Num(NumeralValue(c.s, 0))

IsValidRow(row) == PresentAndNumeric(row["Profit(USD)"])

\* the text before the first blank
DatePortion(s) ==
    IF \E i \in 1..Len(s) : s[i] = " "
    THEN SubSeq(s, 1, (CHOOSE i \in 1..Len(s) :
                          s[i] = " " /\ \A j \in 1..(i - 1) : s[j] # " ") - 1)
    ELSE s

\* the date portion is three parts separated by two slashes
HasDateShape(s) ==
    Cardinality({i \in 1..Len(DatePortion(s)) : DatePortion(s)[i] = "/"}) = 2

\* the row has a close date: a text whose date portion is not empty
HasCloseDate(row) ==
    /\ row["Close Date"].t = "string"
    /\ DatePortion(row["Close Date"].s) # <<>>

\* the row has a close date that is not in the dd/mm/yyyy shape
IllShaped(row) == HasCloseDate(row) /\ ~HasDateShape(row["Close Date"].s)

\* the summed profit of the valid rows that satisfy Test
SumProfitWhere(rows, Test(_)) ==
    LET Keep(row) == IsValidRow(row) /\ Test(row)
        kept == SelectSeq(rows, Keep)
    IN  SumNums([i \in 1..Len(kept) |-> ProfitValue(kept[i]["Profit(USD)"])])

Range(f) == {f[i] : i \in DOMAIN f}

DailyDates(st) == {st.dailyData[i].date : i \in 1..Len(st.dailyData)}

DailyProfits(st) == [i \in 1..Len(st.dailyData) |-> st.dailyData[i].profit]

MonthlyProfits(st) == [i \in 1..Len(st.monthlyData) |-> st.monthlyData[i].profit]

\* the day keys of the valid rows that have one
DayKeysOf(rows) ==
    {dateStrOf(rows[i]) : i \in {j \in 1..Len(rows) :
                                    IsValidRow(rows[j]) /\ HasCloseDate(rows[j])}}

\* the texts of series are strictly ascending
StrictlyAscending(texts) ==
    \A i, j \in 1..Len(texts) : i < j => LocaleLess(texts[i], texts[j])

DailyDateSeq(st) == [i \in 1..Len(st.dailyData) |-> st.dailyData[i].date]

MonthSeq(st) == [i \in 1..Len(st.monthlyData) |-> st.monthlyData[i].month]

AllCalendarDays(st) == \A d \in DailyDates(st) : IsIsoDate(d)

EveryValidRowDated(rows) ==
    \A i \in 1..Len(rows) : IsValidRow(rows[i]) => HasCloseDate(rows[i])

\* ------------------------------------------------------------------------
\* C1, as stated: dailyData is strictly ascending by calendar day, holds one
\* bucket per distinct day of the valid trades, and its profits sum to
\* totalProfit, also when a valid trade has an empty or absent Close Date.
C1_DailySortedAndSumsToTotal ==
    computed # Null =>
        /\ AllCalendarDays(computed)
        /\ StrictlyAscending(DailyDateSeq(computed))
        /\ DailyDates(computed) = DayKeysOf(trades)
        /\ Cardinality(DailyDates(computed)) = Len(computed.dailyData)
        /\ SumNums(DailyProfits(computed)) = computed.totalProfit

\* C1, amended: dailyData holds one bucket per distinct day key of the valid
\* trades that have a Close Date; its profits sum to the summed profit of
\* those trades, which is totalProfit when every valid trade has a Close
\* Date; and it is strictly ascending by calendar day when every key is a
\* yyyy-mm-dd date.
C1_DailyBucketsOfDatedTrades ==
    computed # Null =>
        /\ DailyDates(computed) = DayKeysOf(trades)
        /\ Cardinality(DailyDates(computed)) = Len(computed.dailyData)
        /\ SumNums(DailyProfits(computed)) = SumProfitWhere(trades, HasCloseDate)
        /\ EveryValidRowDated(trades) =>
               SumNums(DailyProfits(computed)) = computed.totalProfit
        /\ AllCalendarDays(computed) => StrictlyAscending(DailyDateSeq(computed))

\* two days, in order, from trades of which one has no Close Date
C1_Witness ==
    /\ computed # Null
    /\ Len(computed.dailyData) >= 2
    /\ AllCalendarDays(computed)
    /\ ~EveryValidRowDated(trades)

\* ------------------------------------------------------------------------
\* C2, as stated: monthlyData is strictly ascending by month, holds one bucket
\* per distinct month of dailyData, and its profits sum to totalProfit.
C2_MonthlySortedAndSumsToTotal ==
    computed # Null =>
        /\ StrictlyAscending(MonthSeq(computed))
        /\ {m : m \in Range(MonthSeq(computed))}
               = {SliceTo(d, 7) : d \in DailyDates(computed)}
        /\ SumNums(MonthlyProfits(computed)) = computed.totalProfit

\* C2, amended: monthlyData is strictly ascending by month and holds one
\* bucket per distinct month of dailyData; its profits sum to the sum of the
\* dailyData profits, which is totalProfit when every valid trade has a Close
\* Date.
C2_MonthlyBucketsOfDaily ==
    computed # Null =>
        /\ StrictlyAscending(MonthSeq(computed))
        /\ {m : m \in Range(MonthSeq(computed))}
               = {SliceTo(d, 7) : d \in DailyDates(computed)}
        /\ SumNums(MonthlyProfits(computed)) = SumNums(DailyProfits(computed))
        /\ EveryValidRowDated(trades) =>
               SumNums(MonthlyProfits(computed)) = computed.totalProfit

\* two months, from trades of which one has no Close Date
C2_Witness ==
    /\ computed # Null
    /\ Len(computed.monthlyData) >= 2
    /\ ~EveryValidRowDated(trades)

\* ------------------------------------------------------------------------
\* C3, as stated: when no trade row is valid, every numeric field of the
\* returned Stats is zero and its series are empty.
C3_AllZeroWithoutValidTrades ==
    (computed # Null /\ \A i \in 1..Len(trades) : ~IsValidRow(trades[i])) =>
        /\ computed.totalTrades = 0
        /\ computed.profitableTrades = 0
        /\ computed.lossTrades = 0
        /\ computed.breakEvenTrades = 0
        /\ computed.winRate = Zero
        /\ computed.totalProfit = Zero
        /\ computed.maxProfit = Zero
        /\ computed.minProfit = Zero
        /\ computed.avgProfit = Zero
        /\ computed.medianProfit = Zero
        /\ computed.stdDev = Sqrt(Zero)
        /\ computed.averageDailyProfit = Zero
        /\ computed.projectedAnnualIncome = Zero
        /\ computed.dailyData = <<>>
        /\ computed.monthlyData = <<>>
        /\ computed.realizedEquityData = <<>>

\* ------------------------------------------------------------------------
\* C4, as stated: a valid trade whose Close Date is not in the dd/mm/yyyy
\* shape creates no bucket and adds to no bucket's profit: every bucket is the
\* day of a well-shaped valid trade and holds the summed profit of the
\* well-shaped valid trades of that day.
C4_IllShapedDateExcluded ==
    computed # Null =>
        \A i \in 1..Len(computed.dailyData) :
            LET b == computed.dailyData[i]
                WellShapedOfDay(row) ==
                    HasCloseDate(row) /\ ~IllShaped(row) /\ dateStrOf(row) = b.date
            IN  /\ \E j \in 1..Len(trades) :
                       IsValidRow(trades[j]) /\ WellShapedOfDay(trades[j])
                /\ b.profit = SumProfitWhere(trades, WellShapedOfDay)

\* C4, amended: a valid trade whose Close Date is not in the dd/mm/yyyy shape
\* is bucketed under the text of its date portion (the text before the first
\* blank): dailyData holds a bucket of that key, whose profit is the summed
\* profit of the valid trades of that key.
C4_IllShapedDateBucketedAsIs ==
    computed # Null =>
        \A j \in 1..Len(trades) :
            IsValidRow(trades[j]) /\ IllShaped(trades[j]) =>
                LET key == DatePortion(trades[j]["Close Date"].s)
                    OfKey(row) == HasCloseDate(row) /\ dateStrOf(row) = key
                IN  \E i \in 1..Len(computed.dailyData) :
                        /\ computed.dailyData[i].date = key
                        /\ computed.dailyData[i].profit = SumProfitWhere(trades, OfKey)

\* an ill-shaped valid trade beside a well-shaped one
C4_Witness ==
    /\ computed # Null
    /\ \E j \in 1..Len(trades) : IsValidRow(trades[j]) /\ IllShaped(trades[j])
    /\ \E j \in 1..Len(trades) :
           IsValidRow(trades[j]) /\ HasCloseDate(trades[j]) /\ ~IllShaped(trades[j])

RemoveAt(seq, p) == SubSeq(seq, 1, p - 1) \o SubSeq(seq, p + 1, Len(seq))

C10_PrefixSumsAndBalance ==
    computed # Null =>
        \A i \in 1..Len(computed.dailyData) :
            /\ computed.dailyData[i].cumulativeProfit
                   = SumNums(SubSeq(DailyProfits(computed), 1, i))
            /\ computed.dailyData[i].balance
                   = Add(initialBalance, computed.dailyData[i].cumulativeProfit)

\* an initial balance of 0 and a cumulative profit that is negative, then rises
C10_Witness ==
    /\ computed # Null
    /\ initialBalance = Zero
    /\ Len(computed.dailyData) >= 2
    /\ Lt(computed.dailyData[1].cumulativeProfit, Zero)
    /\ computed.dailyData[2].cumulativeProfit # computed.dailyData[2].profit

\* ------------------------------------------------------------------------
\* the read of a workbook that has both sheets has completed
ProcessedBothSheets ==
    /\ loaded # Null
    /\ loaded.readable /\ loaded.hasClosedPositions /\ loaded.hasAccountActivity

\* the read of a workbook has completed and its Stats were published
Published == ProcessedBothSheets /\ error = "" /\ stats # Null

\* C5, as stated: a workbook with both sheets, whatever strings and numbers
\* its cells hold and whichever columns are absent, is processed to published
\* Stats, never to the error outcome.
C5_NeverErrorForDataQuality ==
    ProcessedBothSheets => (error = "" /\ stats # Null)

\* ------------------------------------------------------------------------
\* the balance a snapshot states: its Balance when present and numeric, else 0
BalanceOrZero(row) ==
    IF PresentAndNumeric(row["Balance"]) THEN ProfitValue(row["Balance"]) ELSE Zero

\* no snapshot of rows is earlier, by date and time, than rows[i]
ChronologicallyFirst(rows, i) ==
    \A j \in 1..Len(rows) :
        ~Lt(parseDate(rows[j]["Date"].s), parseDate(rows[i]["Date"].s))

\* C6, as stated: the initial balance handed to computeStats is the numeric
\* Balance of the chronologically first snapshot, and 0 when there is no
\* snapshot or that Balance is absent or not numeric.
C6_InitialBalanceOfFirstSnapshot ==
    Published =>
        IF loaded.activityData = <<>> THEN initialBalance = Zero
        ELSE \E i \in 1..Len(loaded.activityData) :
                 /\ ChronologicallyFirst(loaded.activityData, i)
                 /\ initialBalance = BalanceOrZero(loaded.activityData[i])

\* ------------------------------------------------------------------------
\* rows[i] is the last snapshot, by date and time, of its calendar day
LastOfItsDay(rows, i) ==
    \A j \in 1..Len(rows) :
        formatDate(rows[j]["Date"].s) = formatDate(rows[i]["Date"].s) =>
            ~Lt(parseDate(rows[i]["Date"].s), parseDate(rows[j]["Date"].s))

\* C7, as stated: realizedEquityData holds at most one point per calendar day,
\* and the point of a day carries the realized equity of the chronologically
\* last snapshot of that day.
C7_OneEquityPointPerDay ==
    Published =>
        /\ \A i, j \in 1..Len(stats.realizedEquityData) :
               i # j => stats.realizedEquityData[i].date # stats.realizedEquityData[j].date
        /\ \A i \in 1..Len(stats.realizedEquityData) :
               \E k \in 1..Len(loaded.activityData) :
                   /\ LastOfItsDay(loaded.activityData, k)
                   /\ stats.realizedEquityData[i].date
                          = formatDate(loaded.activityData[k]["Date"].s)
                   /\ stats.realizedEquityData[i].realizedEquity
                          = NumberOrZero(loaded.activityData[k]["Realized Equity"])

\* ------------------------------------------------------------------------
\* The equity days and months of published Stats

\* the equity days: the dates of the points of realizedEquityData
EquityDays(st) ==
    {st.realizedEquityData[i].date : i \in 1..Len(st.realizedEquityData)}

\* the equity months: the yyyy-mm of the equity days
EquityMonths(st) == {SliceTo(d, 7) : d \in EquityDays(st)}

\* the realized equity of the equity day d: that of its last point
EquityOfDay(st, d) ==
    LET n == Len(st.realizedEquityData)
        last == CHOOSE i \in 1..n :
                    /\ st.realizedEquityData[i].date = d
                    /\ \A j \in (i + 1)..n : st.realizedEquityData[j].date # d
    IN  st.realizedEquityData[last].realizedEquity

\* the chronologically last equity day of the month m
LastDayOf(st, m) ==
    CHOOSE d \in EquityDays(st) :
        /\ SliceTo(d, 7) = m
        /\ \A e \in EquityDays(st) : SliceTo(e, 7) = m => ~LocaleLess(d, e)

\* the realized equity of the equity month m
EquityOfMonth(st, m) == EquityOfDay(st, LastDayOf(st, m))

\* the keys that come immediately before k among keys (one or none)
ImmediatelyBefore(keys, k) ==
    {p \in keys : /\ LocaleLess(p, k)
                  /\ \A q \in keys : LocaleLess(q, k) => ~LocaleLess(p, q)}

\* the change of k over the key before it: 0 for the first key and when the
\* previous value is 0, else (current - previous) / previous * 100
ChangeOver(keys, Value(_), k) ==
    IF ImmediatelyBefore(keys, k) = {} THEN Zero
    ELSE LET previous == Value(CHOOSE p \in ImmediatelyBefore(keys, k) : TRUE)
         IN  IF previous = Zero THEN Zero
             ELSE Mul(Div(Sub(Value(k), previous), previous), Num(100))

DayOverDay(st, d) == ChangeOver(EquityDays(st), LAMBDA x : EquityOfDay(st, x), d)

MonthOverMonth(st, m) ==
    ChangeOver(EquityMonths(st), LAMBDA x : EquityOfMonth(st, x), m)

KeySeq(m) == [i \in 1..Len(m) |-> m[i].key]

\* ------------------------------------------------------------------------
\* C11: in the published Stats a daily bucket whose date is an equity day
\* carries the equity-derived day-over-day change, a monthly bucket whose
\* month is an equity month the month-over-month change, and every other
\* bucket is exactly the bucket computeStats returned, with its trade-derived
\* percent change.
C11_PatchedOnlyOnEquityKeys ==
    Published =>
        /\ Len(stats.dailyData) = Len(computed.dailyData)
        /\ \A i \in 1..Len(stats.dailyData) :
               stats.dailyData[i] =
                   IF computed.dailyData[i].date \in EquityDays(stats)
                   THEN [computed.dailyData[i] EXCEPT
                            !.dailyPercentChange =
                                DayOverDay(stats, computed.dailyData[i].date)]
                   ELSE computed.dailyData[i]
        /\ Len(stats.monthlyData) = Len(computed.monthlyData)
        /\ \A i \in 1..Len(stats.monthlyData) :
               stats.monthlyData[i] =
                   IF computed.monthlyData[i].month \in EquityMonths(stats)
                   THEN [computed.monthlyData[i] EXCEPT
                            !.monthlyPercentChange =
                                MonthOverMonth(stats, computed.monthlyData[i].month)]
                   ELSE computed.monthlyData[i]

\* a day with both trades and equity whose change was overwritten by another
\* value, next to a day without equity whose trade-derived change is not 0
C11_Witness ==
    /\ Published
    /\ \E i, j \in 1..Len(stats.dailyData) :
           /\ stats.dailyData[i].date \in EquityDays(stats)
           /\ stats.dailyData[i].dailyPercentChange
                  # computed.dailyData[i].dailyPercentChange
           /\ stats.dailyData[j].date \notin EquityDays(stats)
           /\ stats.dailyData[j].dailyPercentChange # Zero

C15_ReconcileIdempotent ==
    Published =>
        \A datesOrder \in equityDateSortOrders(
                              dailyRealizedMapOf(stats.realizedEquityData)) :
            reconcile(stats, datesOrder) = stats

\* a month of the Stats carries an equity-derived change that is not 0
C15_Witness ==
    /\ Published
    /\ \E i \in 1..Len(stats.monthlyData) :
           /\ stats.monthlyData[i].month \in EquityMonths(stats)
           /\ stats.monthlyData[i].monthlyPercentChange # Zero

\* ------------------------------------------------------------------------
\* C14, as stated: once the read of a file has completed, with or without
\* success, the published Stats are not those of an earlier file: there are
\* none, or they were computed from the file processed last.
C14_StatsOfTheFileProcessedLast ==
    (loaded # Null /\ stats # Null) => statsFile = loaded

\* ------------------------------------------------------------------------
\* rows with the rows at i and j exchanged
Swap(rows, i, j) ==
    [k \in 1..Len(rows) |-> IF k = i THEN rows[j] ELSE IF k = j THEN rows[i] ELSE rows[k]]

\* what computeStats may return for rows and the initial balance of the state
ResultsOf(rows) ==
    {computeStats(rows, initialBalance, order) : order \in dailySortOrders(rows)}

\* the Stats but for the order and the running values of dailyData
WithoutDailyData(st) == [st EXCEPT !.dailyData = <<>>]

\* the days of dailyData with their profits
DayProfits(st) ==
    {[date |-> st.dailyData[i].date, profit |-> st.dailyData[i].profit] :
        i \in 1..Len(st.dailyData)}

\* C16, as stated: whichever two trade rows are exchanged (and so, step by
\* step, however the rows are permuted), computeStats with the same initial
\* balance returns the same Stats: scalars, dailyData and monthlyData.
C16_RowOrderIrrelevant ==
    computed # Null =>
        \A i, j \in 1..Len(trades) :
            i < j => ResultsOf(Swap(trades, i, j)) = {computed}

\* C16, amended: whichever two trade rows are exchanged, computeStats returns
\* the same scalars, the same monthlyData and the same days with the same
\* profits; dailyData is the same sequence when every day key is a yyyy-mm-dd
\* date.
C16_RowOrderIrrelevantForDatedKeys ==
    computed # Null =>
        \A i, j \in 1..Len(trades) :
            i < j =>
                \A r \in ResultsOf(Swap(trades, i, j)) :
                    /\ WithoutDailyData(r) = WithoutDailyData(computed)
                    /\ DayProfits(r) = DayProfits(computed)
                    /\ AllCalendarDays(computed) => r = computed

\* three valid trades of two days and differing profits, none in its place
\* by date or by profit, every key a date
C16_Witness ==
    /\ computed # Null
    /\ computed.totalTrades = 3
    /\ Len(computed.dailyData) = 2
    /\ AllCalendarDays(computed)
    /\ dateStrOf(trades[1]) # computed.dailyData[1].date
    /\ computed.medianProfit # ProfitValue(trades[2]["Profit(USD)"])

\* ------------------------------------------------------------------------
\* C17: in what computeStats returns, dailyPercentChange of a bucket is
\* profit / previousBalance * 100, where previousBalance is the initial
\* balance for the first bucket and the balance of the bucket before it for
\* the others, and it is 0 when previousBalance is 0.
C17_TradeDerivedDailyPercent ==
    computed # Null =>
        \A i \in 1..Len(computed.dailyData) :
            LET previousBalance == IF i = 1 THEN initialBalance
                                   ELSE computed.dailyData[i - 1].balance
            IN  computed.dailyData[i].dailyPercentChange =
                    IF previousBalance = Zero THEN Zero
                    ELSE Mul(Div(computed.dailyData[i].profit, previousBalance),
                             Num(100))

\* a first bucket guarded by an initial balance of 0, and a second bucket
\* with a change computed over the first bucket's balance
C17_Witness ==
    /\ computed # Null
    /\ initialBalance = Zero
    /\ Len(computed.dailyData) >= 2
    /\ computed.dailyData[1].profit # Zero
    /\ computed.dailyData[2].dailyPercentChange # Zero

\* ------------------------------------------------------------------------
\* the valid rows of rows
ValidRows(rows) == SelectSeq(rows, IsValidRow)

\* the profits of the valid rows of rows
ValidProfits(rows) ==
    [i \in 1..Len(ValidRows(rows)) |-> ProfitValue(ValidRows(rows)[i]["Profit(USD)"])]

\* a is less than or equal to b
Le(a, b) == a = b \/ Lt(a, b)

\* C18: winRate is the number of valid rows with a profit above 0 over the
\* number of valid rows, times 100; it lies between 0 and 100, and is 0 when
\* there is no valid row.
C18_WinRate ==
    computed # Null =>
        LET profits == ValidProfits(trades)
            wins == Cardinality({i \in 1..Len(profits) : Gt(profits[i], Zero)})
        IN  /\ computed.totalTrades = Len(profits)
            /\ computed.profitableTrades = wins
            /\ computed.winRate =
                   IF Len(profits) = 0 THEN Zero
                   ELSE Mul(Div(Num(wins), Num(Len(profits))), Num(100))
            /\ Le(Zero, computed.winRate) /\ Le(computed.winRate, Num(100))

\* three valid trades, some but not all of them profitable
C18_Witness ==
    /\ computed # Null
    /\ computed.totalTrades = 3
    /\ computed.profitableTrades \in {1, 2}

\* ------------------------------------------------------------------------
\* C19: averageDailyProfit is the sum of the profits of the daily buckets
\* over their number, 0 when there is none, and projectedAnnualIncome is
\* averageDailyProfit times 365.
C19_AverageDailyProfit ==
    computed # Null =>
        /\ computed.averageDailyProfit =
               IF computed.dailyData = <<>> THEN Zero
               ELSE Div(SumNums(DailyProfits(computed)),
                        Num(Len(computed.dailyData)))
        /\ computed.projectedAnnualIncome
               = Mul(computed.averageDailyProfit, Num(365))

\* fewer buckets than valid trades, and an average that is not 0
C19_Witness ==
    /\ computed # Null
    /\ Len(computed.dailyData) = 2
    /\ computed.totalTrades = 3
    /\ computed.averageDailyProfit # Zero

\* ------------------------------------------------------------------------
\* the k-th smallest of the numbers of ps
KthSmallest(ps, k) ==
    CHOOSE x \in Range(ps) :
        /\ Cardinality({i \in 1..Len(ps) : Lt(ps[i], x)}) < k
        /\ k <= Cardinality({i \in 1..Len(ps) : Le(ps[i], x)})

\* the median of ps: the middle number of an odd count, the mean of the two
\* middle numbers of an even count, 0 of none
MedianOf(ps) ==
    LET n == Len(ps)
    IN  IF n = 0 THEN Zero
        ELSE IF n % 2 = 1 THEN KthSmallest(ps, (n + 1) \div 2)
        ELSE Div(Add(KthSmallest(ps, n \div 2), KthSmallest(ps, (n \div 2) + 1)),
                 Num(2))

\* C20: medianProfit is the median of the profits of the valid rows, and with
\* at least one valid row minProfit <= medianProfit <= maxProfit.
C20_MedianProfit ==
    computed # Null =>
        /\ computed.medianProfit = MedianOf(ValidProfits(trades))
        /\ computed.totalTrades > 0 =>
               /\ Le(computed.minProfit, computed.medianProfit)
               /\ Le(computed.medianProfit, computed.maxProfit)

\* two valid trades of different profits, not handed over in ascending order
C20_Witness ==
    /\ computed # Null
    /\ computed.totalTrades = 2
    /\ Lt(computed.minProfit, computed.medianProfit)
    /\ Lt(computed.medianProfit, computed.maxProfit)
    /\ Gt(ValidProfits(trades)[1], ValidProfits(trades)[2])

\* ------------------------------------------------------------------------
\* the daily buckets of st whose date has m as its first 7 characters
DailyBucketsOfMonth(st, m) ==
    LET InMonth(b) == SliceTo(b.date, 7) = m
    IN  SelectSeq(st.dailyData, InMonth)

\* C21: in what computeStats returns, the profit of a monthly bucket is the
\* sum of the profits of the daily buckets whose date has the month as its
\* first 7 characters, and monthlyPercentChange is profit / previousBalance
\* * 100, where previousBalance is the initial balance for the first month
\* and the balance of the month before it for the others, and it is 0 when
\* previousBalance is 0.
C21_MonthlyProfitAndPercent ==
    computed # Null =>
        \A i \in 1..Len(computed.monthlyData) :
            LET bucket == computed.monthlyData[i]
                days == DailyBucketsOfMonth(computed, bucket.month)
                previousBalance == IF i = 1 THEN initialBalance
                                   ELSE computed.monthlyData[i - 1].balance
            IN  /\ bucket.profit = SumNums([k \in 1..Len(days) |-> days[k].profit])
                /\ bucket.monthlyPercentChange =
                       IF previousBalance = Zero THEN Zero
                       ELSE Mul(Div(bucket.profit, previousBalance), Num(100))

\* a first month of two days, and a second month whose change is taken over
\* a balance that is not the initial one
C21_Witness ==
    /\ computed # Null
    /\ Len(computed.monthlyData) = 2
    /\ Len(DailyBucketsOfMonth(computed, computed.monthlyData[1].month)) = 2
    /\ computed.monthlyData[1].balance # initialBalance
    /\ computed.monthlyData[2].monthlyPercentChange # Zero
    /\ IsFinite(computed.monthlyData[2].monthlyPercentChange)

\* ------------------------------------------------------------------------
\* the error text the processing of the workbook wb ends in, "" when it
\* publishes Stats
ErrorOutcome(wb) ==
    IF ~wb.readable THEN ErrorProcessing
    ELSE IF ~wb.hasClosedPositions THEN ClosedPositionsMissing
    ELSE IF ~wb.hasAccountActivity THEN AccountActivityMissing
    ELSE IF \E i \in 1..Len(wb.activityData) : wb.activityData[i]["Date"].t # "string"
    THEN ErrorProcessing
    ELSE ""

\* C22, as stated: when two files have been chosen one after the other and
\* both read callbacks have run, in either order, the error on display is
\* that of the file chosen last, and the Stats on display, if any, were
\* computed from the file chosen last.
C22_LastSelectedFileWins ==
    (Len(selected) = 2 /\ reads = <<>>) =>
        /\ error = ErrorOutcome(selected[2])
        /\ stats # Null => statsFile = selected[2]

\* ------------------------------------------------------------------------
\* the Stats the processing of the workbook wb may publish
PublishedBy(wb) ==
    UNION {
        LET sortedActivity == Reorder(wb.activityData, activityOrder)
            computedStats ==
                [computeStats(wb.tradesData, initialBalanceOf(sortedActivity), dailyOrder)
                    EXCEPT !.realizedEquityData = realizedEquityDataOf(sortedActivity)]
        IN  {reconcile(computedStats, datesOrder) :
                datesOrder \in equityDateSortOrders(
                                   dailyRealizedMapOf(computedStats.realizedEquityData))} :
        activityOrder \in activitySortOrders(wb.activityData),
        dailyOrder \in dailySortOrders(wb.tradesData) }

\* C23: every run of a read callback either fails (the file is unreadable,
\* a sheet is missing or an exception is thrown), and then sets a non-empty
\* error and leaves stats as they were, or succeeds, and then sets stats to
\* the newly computed value and error to the empty string; so error is empty
\* exactly when the processing that ran last succeeded.
C23_FailureKeepsStatsSuccessReplaces ==
    [][Len(reads') < Len(reads) =>
          /\ loaded' \in Range(reads)
          /\ IF ErrorOutcome(loaded') # ""
             THEN error' = ErrorOutcome(loaded') /\ stats' = stats
             ELSE error' = "" /\ stats' \in PublishedBy(loaded')
          /\ error' = "" <=> ErrorOutcome(loaded') = ""]_vars

\* a processing has failed after one that succeeded: its error is on display
\* next to the Stats of the earlier file
C23_Witness ==
    /\ loaded # Null
    /\ ErrorOutcome(loaded) # ""
    /\ error = ErrorOutcome(loaded)
    /\ stats # Null
    /\ statsFile # loaded

\* ------------------------------------------------------------------------
\* the Stats without their series
Scalars(st) ==
    [st EXCEPT !.dailyData = <<>>, !.monthlyData = <<>>, !.realizedEquityData = <<>>]

\* C24: the published Stats differ from what computeStats returned in the
\* percent changes only (and in the equity series added to them): dailyData
\* and monthlyData have the same length and order, every bucket has the same
\* date or month, profit, cumulativeProfit and balance, and every scalar
\* statistic is the same.
C24_PatchChangesPercentOnly ==
    Published =>
        /\ Scalars(stats) = Scalars(computed)
        /\ Len(stats.dailyData) = Len(computed.dailyData)
        /\ \A i \in 1..Len(stats.dailyData) :
               [stats.dailyData[i] EXCEPT !.dailyPercentChange = Zero]
                   = [computed.dailyData[i] EXCEPT !.dailyPercentChange = Zero]
        /\ Len(stats.monthlyData) = Len(computed.monthlyData)
        /\ \A i \in 1..Len(stats.monthlyData) :
               [stats.monthlyData[i] EXCEPT !.monthlyPercentChange = Zero]
                   = [computed.monthlyData[i] EXCEPT !.monthlyPercentChange = Zero]

\* Stats of two days and two months, with a percent change of a day and one
\* of a month replaced by another value, and a month left as it was
C24_Witness ==
    /\ Published
    /\ Len(stats.dailyData) >= 2
    /\ Len(stats.monthlyData) >= 2
    /\ \E i \in 1..Len(stats.dailyData) :
           stats.dailyData[i].dailyPercentChange
               # computed.dailyData[i].dailyPercentChange
    /\ \E i \in 1..Len(stats.monthlyData) :
           stats.monthlyData[i].monthlyPercentChange
               # computed.monthlyData[i].monthlyPercentChange
    /\ \E i \in 1..Len(stats.monthlyData) :
           stats.monthlyData[i].month \notin EquityMonths(stats)

\* ------------------------------------------------------------------------
\* the last daily bucket of st, in the order of dailyData, of the month m
LastDailyBucketOf(st, m) ==
    LET days == DailyBucketsOfMonth(st, m)
    IN  days[Len(days)]

\* the last monthly bucket carries what the last daily bucket carries
FinalBalancesAgree(st) ==
    st.dailyData # <<>> =>
        /\ st.monthlyData # <<>>
        /\ st.monthlyData[Len(st.monthlyData)].balance
               = st.dailyData[Len(st.dailyData)].balance
        /\ st.monthlyData[Len(st.monthlyData)].cumulativeProfit
               = st.dailyData[Len(st.dailyData)].cumulativeProfit

\* every monthly bucket carries what the last daily bucket of its month does
TracksAgree(st) ==
    \A i \in 1..Len(st.monthlyData) :
        /\ DailyBucketsOfMonth(st, st.monthlyData[i].month) # <<>>
        /\ st.monthlyData[i].cumulativeProfit
               = LastDailyBucketOf(st, st.monthlyData[i].month).cumulativeProfit
        /\ st.monthlyData[i].balance
               = LastDailyBucketOf(st, st.monthlyData[i].month).balance

\* C25, as stated: the cumulativeProfit and balance of every monthly bucket
\* are those of the last daily bucket of that month, and the final monthly
\* balance is the final daily balance whenever the series are not empty.
C25_TracksAgree ==
    computed # Null => (TracksAgree(computed) /\ FinalBalancesAgree(computed))

\* C25, amended: the final monthly cumulativeProfit and balance are the
\* final daily ones whenever the series are not empty, and every monthly
\* bucket carries the cumulativeProfit and balance of the last daily bucket
\* of its month when every day key is a yyyy-mm-dd date.
C25_TracksAgreeForDatedKeys ==
    computed # Null =>
        /\ FinalBalancesAgree(computed)
        /\ AllCalendarDays(computed) => TracksAgree(computed)

\* three dated days of two months, handed over out of order, with a
\* cumulative profit carried from the first month to the second
C25_Witness ==
    /\ computed # Null
    /\ AllCalendarDays(computed)
    /\ Len(computed.dailyData) = 3
    /\ Len(computed.monthlyData) = 2
    /\ computed.monthlyData[1].cumulativeProfit # Zero
    /\ dateStrOf(trades[1]) # computed.dailyData[1].date

====
